---- MODULE Spec2Model ----
(***************************************************************************)
(* Model of meta.py: extraction of {{field:value}} markers from document   *)
(* content, the bulk load over the host's document store, and the          *)
(* substitution of {{field}} placeholders.                                 *)
(*                                                                         *)
(* A Python str is a sequence of one-character strings.  A Python dict is  *)
(* a sequence of <<key, value>> pairs with unique keys, in insertion       *)
(* order (the order its items() are iterated in).                          *)
(***************************************************************************)
EXTENDS Integers, Sequences, FiniteSets, TLC

VARIABLES
    store,  \* lste.content: the host's documents, in insertion order; the file key is the index
    pc,     \* the call that completed last ("init" before any call)
    args,   \* the arguments of that call (docs: the document set as it was passed in)
    ret     \* what that call returned or raised

vars == <<store, pc, args, ret>>

----------------------------------------------------------------------------
(* Bounds of the model *)

MaxPieces == 3          \* pieces per extraction input
MaxContentPieces == 2   \* pieces per substitution input
MaxFiles == 2           \* documents in the host store
MaxEntries == 2         \* entries of a meta mapping given to replace_fields

----------------------------------------------------------------------------
(* Characters *)

WordChars == {"x"}                 \* the characters of the model that \w matches
Whitespace == {" "}                \* the characters str.strip() removes
AsciiLetters == {"x"}              \* the ASCII letters of the model
Alphabet == {"{", "}", ":", "x", "-", " ", ".", "\\"}

----------------------------------------------------------------------------
(* str.strip() *)

RECURSIVE lstrip(_)
lstrip(s) ==
    IF s # <<>> /\ Head(s) \in Whitespace THEN lstrip(Tail(s)) ELSE s

RECURSIVE rstrip(_)
rstrip(s) ==
    IF s # <<>> /\ s[Len(s)] \in Whitespace
    THEN rstrip(SubSeq(s, 1, Len(s) - 1))
    ELSE s

strip(s) == rstrip(lstrip(s))

----------------------------------------------------------------------------
(* dict *)

EmptyDict == <<>>

DictKeys(d) == {d[i][1] : i \in 1..Len(d)}

DictGet(d, k) == d[CHOOSE i \in 1..Len(d) : d[i][1] = k][2]

\* d[k] = v: an existing key keeps its place, a new key is appended
DictSet(d, k, v) ==
    IF k \in DictKeys(d)
    THEN [i \in 1..Len(d) |-> IF d[i][1] = k THEN <<k, v>> ELSE d[i]]
    ELSE Append(d, <<k, v>>)

\* the first assignment to a key wins
DictSetFirst(d, k, v) ==
    IF k \in DictKeys(d) THEN d ELSE Append(d, <<k, v>>)

RECURSIVE DictUpdate(_, _)
DictUpdate(d, e) ==
    IF e = <<>> THEN d
    ELSE DictUpdate(DictSet(d, e[1][1], e[1][2]), Tail(e))

Range(s) == {s[i] : i \in 1..Len(s)}

----------------------------------------------------------------------------
\* The marker pattern: two {, a name of one or more [\w-], a colon,
\* a value of zero or more [^}], two }

NameClass == WordChars \cup {"-"}      \* [\w-]
ValueClass == Alphabet \ {"}"}         \* [^}]

\* a greedy run of characters of class S from index i: the index after it
RECURSIVE SkipIn(_, _, _)
SkipIn(s, i, S) ==
    IF i <= Len(s) /\ s[i] \in S THEN SkipIn(s, i + 1, S) ELSE i

NoMatch == [matched |-> FALSE, field |-> <<>>, value |-> <<>>, end |-> 0]

\* the match of the pattern that starts at index i, if there is one
PatternMatch(s, i) ==
    LET n == SkipIn(s, i + 2, NameClass)
        v == SkipIn(s, n + 1, ValueClass)
    IN  IF /\ i + 1 <= Len(s)
           /\ s[i] = "{" /\ s[i + 1] = "{"
           /\ n > i + 2
           /\ n <= Len(s) /\ s[n] = ":"
           /\ v + 1 <= Len(s)
           /\ s[v] = "}" /\ s[v + 1] = "}"
        THEN [matched |-> TRUE,
              field |-> SubSeq(s, i + 2, n - 1),
              value |-> SubSeq(s, n + 1, v - 1),
              end |-> v + 2]
        ELSE NoMatch

\* re.findall(pattern, content): the (field, value) groups of the
\* non-overlapping matches, scanning left to right
RECURSIVE FindAllFrom(_, _)
FindAllFrom(s, i) ==
    IF i > Len(s) THEN <<>>
    ELSE LET m == PatternMatch(s, i)
         IN  IF m.matched
             THEN <<(<<m.field, m.value>>)>> \o FindAllFrom(s, m.end)
             ELSE FindAllFrom(s, i + 1)

re_findall(s) == FindAllFrom(s, 1)

\* re.sub(pattern, '', content)
RECURSIVE SubFrom(_, _)
SubFrom(s, i) ==
    IF i > Len(s) THEN <<>>
    ELSE LET m == PatternMatch(s, i)
         IN  IF m.matched
             THEN SubFrom(s, m.end)
             ELSE <<s[i]>> \o SubFrom(s, i + 1)

re_sub_pattern(s) == SubFrom(s, 1)

\* {field.strip(): value.strip() for field, value in matches}
RECURSIVE DictOfMatches(_, _)
DictOfMatches(d, matches) ==
    IF matches = <<>> THEN d
    ELSE DictOfMatches(DictSet(d, strip(matches[1][1]), strip(matches[1][2])),
                       Tail(matches))

RECURSIVE DictOfMatchesFirst(_, _)
DictOfMatchesFirst(d, matches) ==
    IF matches = <<>> THEN d
    ELSE DictOfMatchesFirst(
             DictSetFirst(d, strip(matches[1][1]), strip(matches[1][2])),
             Tail(matches))

meta_dict_first_wins(content) == DictOfMatchesFirst(EmptyDict, re_findall(content))

meta_dict(content) == DictOfMatches(EmptyDict, re_findall(content))

content_not_stripped(content) == re_sub_pattern(content)

content_without_meta(content) == strip(re_sub_pattern(content))

extract_and_remove_meta_fields(content) ==
    [meta |-> meta_dict(content), content |-> content_without_meta(content)]

----------------------------------------------------------------------------
(* re.escape, the compiled literal pattern, and the replacement template *)

\* the characters of the model that re.escape puts a backslash in front of
SpecialChars == {"{", "}", "-", " ", ".", "\\"}

RECURSIVE re_escape(_)
re_escape(s) ==
    IF s = <<>> THEN <<>>
    ELSE (IF Head(s) \in SpecialChars THEN <<"\\", Head(s)>> ELSE <<Head(s)>>)
         \o re_escape(Tail(s))

\* the atoms of a compiled pattern: an escaped character and an ordinary
\* character match themselves, an unescaped dot matches any character
RECURSIVE Compile(_)
Compile(p) ==
    IF p = <<>> THEN <<>>
    ELSE IF Head(p) = "\\" /\ Len(p) >= 2
         THEN <<[any |-> FALSE, ch |-> p[2]]>> \o Compile(Tail(Tail(p)))
         ELSE <<[any |-> Head(p) = ".", ch |-> Head(p)]>> \o Compile(Tail(p))

\* whether the atoms match the characters of s that start at index i
AtomsMatch(atoms, s, i) ==
    /\ i + Len(atoms) - 1 <= Len(s)
    /\ \A j \in 1..Len(atoms) : atoms[j].any \/ atoms[j].ch = s[i + j - 1]

\* The replacement string of re.sub is a template.  Without a backslash it
\* stands for itself.  Otherwise a backslash followed by a backslash gives one
\* backslash, followed by an ASCII letter that is no known escape it is an
\* error ("bad escape"), at the end of the string it is an error, and
\* followed by any other character both characters stand for themselves.
RECURSIVE ParseTemplate(_)
ParseTemplate(t) ==
    IF t = <<>> THEN [error |-> FALSE, text |-> <<>>]
    ELSE IF Head(t) # "\\"
         THEN LET r == ParseTemplate(Tail(t))
              IN  [error |-> r.error, text |-> <<Head(t)>> \o r.text]
         ELSE IF Len(t) = 1 THEN [error |-> TRUE, text |-> <<>>]
         ELSE IF t[2] \in AsciiLetters THEN [error |-> TRUE, text |-> <<>>]
         ELSE LET r == ParseTemplate(Tail(Tail(t)))
              IN  [error |-> r.error,
                   text |-> (IF t[2] = "\\" THEN <<"\\">> ELSE <<"\\", t[2]>>)
                            \o r.text]

\* the non-overlapping matches of the atoms, left to right, each replaced
RECURSIVE SubAtomsFrom(_, _, _, _)
SubAtomsFrom(atoms, repl, s, i) ==
    IF i > Len(s) THEN <<>>
    ELSE IF AtomsMatch(atoms, s, i)
         THEN repl \o SubAtomsFrom(atoms, repl, s, i + Len(atoms))
         ELSE <<s[i]>> \o SubAtomsFrom(atoms, repl, s, i + 1)

\* re.sub(pattern, repl, string): a result, or the error of a bad template
re_sub(pattern, repl, string) ==
    LET t == ParseTemplate(repl)
    IN  IF t.error
        THEN [status |-> "re.error", content |-> <<>>]
        ELSE [status |-> "ok",
              content |-> SubAtomsFrom(Compile(pattern), t.text, string, 1)]

replace_field(content, fieldname, value) ==
    re_sub(re_escape(<<"{", "{">> \o fieldname \o <<"}", "}">>), value, content)

\* the values left as they are
untrimmed_meta_fields(meta_fields) == meta_fields

\* {k: v.strip() for k, v in meta_fields.items()}
trimmed_meta_fields(meta_fields) ==
    [i \in 1..Len(meta_fields) |-> <<meta_fields[i][1], strip(meta_fields[i][2])>>]

\* the loop over the items: an error ends it
RECURSIVE ReplaceLoop(_, _)
ReplaceLoop(content, items) ==
    IF items = <<>> THEN [status |-> "ok", content |-> content]
    ELSE LET r == replace_field(content, items[1][1], items[1][2])
         IN  IF r.status # "ok" THEN r
             ELSE ReplaceLoop(r.content, Tail(items))

\* the trimmed values assigned back into the mapping passed in
replace_fields_in_place(content, meta_fields) ==
    [result |-> ReplaceLoop(content, trimmed_meta_fields(meta_fields)),
     meta_fields |-> trimmed_meta_fields(meta_fields)]

\* the value returned, and the mapping passed in as the call leaves it
replace_fields(content, meta_fields) ==
    [result |-> ReplaceLoop(content, trimmed_meta_fields(meta_fields)),
     meta_fields |-> meta_fields]

----------------------------------------------------------------------------
(* The host's document store and the two hooks *)

\* A document record.  A record without 'content' (or without 'meta') has
\* has_content (has_meta) FALSE and an empty field.
Doc(has_content, content, has_meta, meta) ==
    [has_content |-> has_content, content |-> content,
     has_meta |-> has_meta, meta |-> meta]

\* the extracted fields assigned over the record's meta instead of into it
replaced_meta(doc, meta_fields) == meta_fields

\* content[file]['meta'] after the update: the record's meta ({} if it had
\* none) with the extracted fields assigned into it
updated_meta(doc, meta_fields) ==
    DictUpdate(IF doc.has_meta THEN doc.meta ELSE EmptyDict, meta_fields)

\* the body of the loop of load_meta_fields for one file
load_file(doc) ==
    LET e == extract_and_remove_meta_fields(doc.content)
    IN  Doc(TRUE, e.content, TRUE, updated_meta(doc, e.meta))

\* the loop over the files, in the order of the dict: a record without
\* 'content' raises KeyError there, with the earlier records already written
RECURSIVE LoadLoop(_, _)
LoadLoop(docs, file) ==
    IF file > Len(docs) THEN [status |-> "ok", docs |-> docs]
    ELSE IF ~docs[file].has_content THEN [status |-> "KeyError", docs |-> docs]
    ELSE LoadLoop([docs EXCEPT ![file] = load_file(docs[file])], file + 1)

load_meta_fields(docs) == LoadLoop(docs, 1)

\* replace_meta_fields(content, file, lste): the value returned or the error
\* raised, and lste.content as the call leaves it
replace_meta_fields(content, file, lste_content) ==
    IF file \notin 1..Len(lste_content) \/ ~lste_content[file].has_meta
    THEN [result |-> [status |-> "KeyError", content |-> <<>>],
          lste_content |-> lste_content]
    ELSE LET r == replace_fields(content, lste_content[file].meta)
         IN  [result |-> r.result,
              lste_content |-> [lste_content EXCEPT ![file].meta = r.meta_fields]]

----------------------------------------------------------------------------
(* Inputs *)

\* the concatenations of at most n pieces
RECURSIVE Concats(_, _)
Concats(P, n) ==
    IF n = 0 THEN {<<>>}
    ELSE LET prev == Concats(P, n - 1)
         IN  prev \cup {p \o q : p \in P, q \in prev}

\* the dicts of at most n entries, in every insertion order
RECURSIVE Dicts(_, _, _)
Dicts(K, V, n) ==
    IF n = 0 THEN {EmptyDict}
    ELSE LET prev == Dicts(K, V, n - 1)
             more == {<<d, k, v>> \in prev \X K \X V : k \notin DictKeys(d)}
         IN  prev \cup {Append(t[1], <<t[2], t[3]>>) : t \in more}

ExtractPieces ==
    { <<"{", "{", "x", ":", "x", "}", "}">>,                   \* {{x:x}}
      <<"{", "{", "x", ":", " ", "}", "}">>,                   \* {{x: }}
      <<"{", "{", "-", "x", ":", " ", "x", ":", " ", "}", "}">>, \* {{-x: x: }}
      <<"{", "{", "x">>,
      <<":", "}", "}">>,
      <<"}", "}">>,
      <<"{">>, <<"}">>, <<"x">>, <<" ">>, <<".">> }

ExtractInputs == Concats(ExtractPieces, MaxPieces)

ReplacePieces ==
    { <<"{", "{", "x", "}", "}">>,      \* {{x}}
      <<"{", "{", ".", "}", "}">>,      \* {{.}}
      <<"{", "{">>, <<"}", "}">>,
      <<"x">>, <<" ">>, <<"\\">> }

ReplaceInputs == Concats(ReplacePieces, MaxContentPieces)

FieldNames == { <<"x">>, <<".">>, <<"-">> }

MetaValues ==
    { <<" ", "x", " ">>,
      <<"{", "{", ".", "}", "}">>,
      <<"\\">> }

Values ==
    MetaValues \cup { <<>>, <<"\\", "\\">>, <<"\\", "x">>, <<"\\", "{">>, <<".">> }

Metas == Dicts(FieldNames, MetaValues, MaxEntries)

DocContents ==
    { <<" ", "{", "{", "x", ":", " ", "x", " ", "}", "}", "{", "{", "x", "}", "}">>, \* " {{x: x }}{{x}}"
      <<"{", "{", ".", ":", "}", "}">>,                                            \* {{.:}}
      <<"{", "{", "-", ":", "}", "}", "x">> }                                      \* {{-:}}x

DocMetas ==
    { <<(<<(<<"x">>), (<<" ", ".", " ">>)>>), (<<(<<"-">>), (<<"\\", "\\">>)>>)>>,  \* {x: " . ", -: "\\"}
      <<(<<(<<".">>), (<<"\\">>)>>)>> }                                             \* {.: "\"}

Docs ==
    {Doc(TRUE, c, TRUE, m) : c \in DocContents, m \in DocMetas}
    \cup {Doc(TRUE, c, FALSE, EmptyDict) : c \in DocContents}
    \cup {Doc(FALSE, <<>>, TRUE, m) : m \in DocMetas}
    \cup {Doc(FALSE, <<>>, FALSE, EmptyDict)}

RECURSIVE Stores(_)
Stores(n) ==
    IF n = 0 THEN {<<>>}
    ELSE LET prev == Stores(n - 1)
         IN  prev \cup {Append(st, d) : st \in prev, d \in Docs}

HookContents ==
    { <<"{", "{", "x", "}", "}", " ", "{", "{", ".", "}", "}">>,    \* "{{x}} {{.}}"
      <<"{", "{", "-", "}", "}">>,                                \* {{-}}
      <<"x">> }

----------------------------------------------------------------------------
(* The calls *)

NoArgs ==
    [content |-> <<>>, file |-> 0, fieldname |-> <<>>, value |-> <<>>,
     meta_fields |-> EmptyDict, docs |-> <<>>]

NoRet == [status |-> "none", content |-> <<>>, meta |-> EmptyDict]

\* the host fires 'load_content' with its document set
LoadContent ==
    LET r == load_meta_fields(store)
    IN  /\ store' = r.docs
        /\ pc' = "load_content"
        /\ args' = [NoArgs EXCEPT !.docs = store]
        /\ ret' = [NoRet EXCEPT !.status = r.status]

\* the host fires 'single_content' with a content and a file key
SingleContent ==
    \E content \in HookContents, file \in 1..(MaxFiles + 1) :
        LET r == replace_meta_fields(content, file, store)
        IN  /\ store' = r.lste_content
            /\ pc' = "single_content"
            /\ args' = [NoArgs EXCEPT !.content = content, !.file = file,
                                      !.docs = store]
            /\ ret' = [NoRet EXCEPT !.status = r.result.status,
                                    !.content = r.result.content]

\* the host fires 'pre_load_custom_functions' with a content and a file key
PreLoadCustomFunctions ==
    \E content \in HookContents, file \in 1..(MaxFiles + 1) :
        LET r == replace_meta_fields(content, file, store)
        IN  /\ store' = r.lste_content
            /\ pc' = "pre_load_custom_functions"
            /\ args' = [NoArgs EXCEPT !.content = content, !.file = file,
                                      !.docs = store]
            /\ ret' = [NoRet EXCEPT !.status = r.result.status,
                                    !.content = r.result.content]

Init ==
    /\ store \in Stores(MaxFiles)
    /\ pc = "init"
    /\ args = NoArgs
    /\ ret = NoRet

Next == LoadContent \/ SingleContent \/ PreLoadCustomFunctions

Spec == Init /\ [][Next]_vars

\* extract_and_remove_meta_fields on an input, then again on what it returned

Extract ==
    /\ pc = "init"
    /\ LET e == extract_and_remove_meta_fields(args.content)
       IN  /\ pc' = "extract_and_remove_meta_fields"
           /\ ret' = [status |-> "ok", content |-> e.content, meta |-> e.meta]
    /\ UNCHANGED <<store, args>>

ExtractAgain ==
    /\ pc = "extract_and_remove_meta_fields"
    /\ LET e == extract_and_remove_meta_fields(ret.content)
       IN  /\ pc' = "extract_again"
           /\ args' = [NoArgs EXCEPT !.content = ret.content]
           /\ ret' = [status |-> "ok", content |-> e.content, meta |-> e.meta]
    /\ UNCHANGED store

InitExtract ==
    /\ store = <<>>
    /\ pc = "init"
    /\ args \in {[NoArgs EXCEPT !.content = c] : c \in ExtractInputs}
    /\ ret = NoRet

NextExtract == Extract \/ ExtractAgain

SpecExtract == InitExtract /\ [][NextExtract]_vars

\* replace_field and replace_fields on an input

ReplaceField ==
    /\ pc = "init"
    /\ \E fieldname \in FieldNames, value \in Values :
           LET r == replace_field(args.content, fieldname, value)
           IN  /\ pc' = "replace_field"
               /\ args' = [args EXCEPT !.fieldname = fieldname, !.value = value]
               /\ ret' = [NoRet EXCEPT !.status = r.status, !.content = r.content]
    /\ UNCHANGED store

ReplaceFields ==
    /\ pc = "init"
    /\ \E meta_fields \in Metas :
           LET r == replace_fields(args.content, meta_fields)
           IN  /\ pc' = "replace_fields"
               /\ args' = [args EXCEPT !.meta_fields = meta_fields]
               /\ ret' = [status |-> r.result.status,
                          content |-> r.result.content,
                          meta |-> r.meta_fields]
    /\ UNCHANGED store

InitReplace ==
    /\ store = <<>>
    /\ pc = "init"
    /\ args \in {[NoArgs EXCEPT !.content = c] : c \in ReplaceInputs}
    /\ ret = NoRet

NextReplace == ReplaceField \/ ReplaceFields

SpecReplace == InitReplace /\ [][NextReplace]_vars

----------------------------------------------------------------------------
(* The marker syntax, stated without the scan *)

\* s[i..j] is a marker: two {, a name, a colon, a value without }, two }
IsMarkerSpan(s, i, j) ==
    /\ 1 <= i /\ j <= Len(s) /\ j - i >= 5
    /\ s[i] = "{" /\ s[i + 1] = "{"
    /\ s[j - 1] = "}" /\ s[j] = "}"
    /\ \E k \in (i + 3)..(j - 2) :
           /\ s[k] = ":"
           /\ \A m \in (i + 2)..(k - 1) : s[m] \in NameClass
           /\ \A m \in (k + 1)..(j - 2) : s[m] # "}"

MarkerSpans(s) ==
    {sp \in (1..Len(s)) \X (1..Len(s)) : IsMarkerSpan(s, sp[1], sp[2])}

HasMarker(s) == MarkerSpans(s) # {}

\* the markers a left-to-right non-overlapping scan matches: those that no
\* marker starting further left reaches into
MatchedSpans(s) ==
    LET all == MarkerSpans(s)
    IN  {sp \in all : ~\E other \in all : other[1] < sp[1] /\ other[2] >= sp[1]}

SpanColon(s, sp) == CHOOSE k \in (sp[1] + 3)..(sp[2] - 2) :
                        /\ s[k] = ":"
                        /\ \A m \in (sp[1] + 2)..(k - 1) : s[m] \in NameClass

SpanName(s, sp) == SubSeq(s, sp[1] + 2, SpanColon(s, sp) - 1)

SpanValue(s, sp) == SubSeq(s, SpanColon(s, sp) + 1, sp[2] - 2)

\* s without its leading and trailing whitespace
Trimmed(s) ==
    LET solid == {i \in 1..Len(s) : s[i] \notin Whitespace}
    IN  IF solid = {} THEN <<>>
        ELSE SubSeq(s, CHOOSE i \in solid : \A j \in solid : i <= j,
                       CHOOSE i \in solid : \A j \in solid : i >= j)

\* the characters of s at the indices of K, in order
Restrict(s, K) ==
    [n \in 1..Cardinality(K) |->
        s[CHOOSE i \in K : Cardinality({j \in K : j <= i}) = n]]

\* s with the matched markers deleted
WithoutMatched(s) ==
    LET M == MatchedSpans(s)
    IN  Restrict(s, {i \in 1..Len(s) : ~\E sp \in M : sp[1] <= i /\ i <= sp[2]})

Extracted == pc \in {"extract_and_remove_meta_fields", "extract_again"}

----------------------------------------------------------------------------
(* Claims about extract_and_remove_meta_fields, under SpecExtract *)

\* C1: the content returned by extract_and_remove_meta_fields holds no
\* marker, and extracting again from it returns an empty mapping and the
\* same content.
C1_NoMarkerLeft ==
    /\ Extracted => ~HasMarker(ret.content)
    /\ pc = "extract_again" => ret.meta = EmptyDict /\ ret.content = args.content

\* C2: the keys of the returned mapping are exactly the names of the markers
\* matched by the left-to-right non-overlapping scan, and each key maps to
\* the trimmed value of the last matched marker of that name.
C2_LastMatchWins ==
    Extracted =>
        LET s == args.content
            M == MatchedSpans(s)
        IN  /\ Len(ret.meta) = Cardinality(DictKeys(ret.meta))
            /\ DictKeys(ret.meta) = {SpanName(s, sp) : sp \in M}
            /\ \A sp \in M :
                   (\A later \in M : SpanName(s, later) = SpanName(s, sp)
                                         => later[1] <= sp[1])
                   => DictGet(ret.meta, SpanName(s, sp)) = Trimmed(SpanValue(s, sp))

\* a marker name matched twice, with different trimmed values
C2_Witness ==
    /\ pc = "extract_and_remove_meta_fields"
    /\ \E a, b \in MatchedSpans(args.content) :
           /\ a[1] < b[1]
           /\ SpanName(args.content, a) = SpanName(args.content, b)
           /\ Trimmed(SpanValue(args.content, a)) # Trimmed(SpanValue(args.content, b))
           /\ SpanValue(args.content, b) # Trimmed(SpanValue(args.content, b))
           /\ DictGet(ret.meta, SpanName(args.content, b))
                  = Trimmed(SpanValue(args.content, b))

\* C3: the returned content is the input with exactly the matched markers
\* deleted, then trimmed; what is no matched marker stays, in order; an input
\* without a marker gives an empty mapping and the trimmed input.
C3_ContentIsInputWithoutMatched ==
    Extracted =>
        /\ ret.content = Trimmed(WithoutMatched(args.content))
        /\ ~HasMarker(args.content) =>
               ret.meta = EmptyDict /\ ret.content = Trimmed(args.content)

\* a marker was deleted, a malformed marker stayed, whitespace was trimmed
C3_Witness ==
    /\ pc = "extract_and_remove_meta_fields"
    /\ MatchedSpans(args.content) # {}
    /\ Len(ret.content) < Len(WithoutMatched(args.content))
    /\ \E i \in 1..(Len(ret.content) - 2) :
           SubSeq(ret.content, i, i + 2) = <<"{", "{", "x">>

----------------------------------------------------------------------------
(* Claims about load_meta_fields and the substitution hooks, under Spec *)

AllHaveContent(docs) == \A file \in 1..Len(docs) : docs[file].has_content

\* a record's meta, {} if it has none
MetaOf(doc) == IF doc.has_meta THEN doc.meta ELSE EmptyDict

\* C4: after load_meta_fields on a document set whose records all have
\* 'content', the file keys are the same, and every record's meta is its
\* previous meta (empty if absent) overwritten by the fields extracted from
\* its own previous content, and its content is the cleaned string of its own
\* previous content.
C4_LoadMergesPerRecord ==
    (pc = "load_content" /\ AllHaveContent(args.docs)) =>
        /\ ret.status = "ok"
        /\ Len(store) = Len(args.docs)
        /\ \A file \in 1..Len(store) :
               LET old == args.docs[file]
                   e == extract_and_remove_meta_fields(old.content)
                   new == store[file]
               IN  /\ new.has_content /\ new.has_meta
                   /\ new.content = e.content
                   /\ Len(new.meta) = Cardinality(DictKeys(new.meta))
                   /\ DictKeys(new.meta) = DictKeys(MetaOf(old)) \cup DictKeys(e.meta)
                   /\ \A k \in DictKeys(new.meta) :
                          DictGet(new.meta, k) =
                              IF k \in DictKeys(e.meta) THEN DictGet(e.meta, k)
                              ELSE DictGet(MetaOf(old), k)

\* two records loaded; in one an extracted field overwrote a previous value
\* while an unrelated previous key was kept, the other had no meta before
C4_Witness ==
    /\ pc = "load_content" /\ ret.status = "ok"
    /\ Len(store) = 2
    /\ \E file \in 1..2 :
           LET old == args.docs[file]
               e == extract_and_remove_meta_fields(old.content)
           IN  /\ old.has_meta
               /\ \E k \in DictKeys(old.meta) \cap DictKeys(e.meta) :
                      /\ DictGet(old.meta, k) # DictGet(e.meta, k)
                      /\ DictGet(store[file].meta, k) = DictGet(e.meta, k)
               /\ \E k \in DictKeys(old.meta) \ DictKeys(e.meta) :
                      DictGet(store[file].meta, k) = DictGet(old.meta, k)
    /\ \E file \in 1..2 :
           /\ ~args.docs[file].has_meta
           /\ store[file].meta # EmptyDict
    /\ store[1].content # store[2].content

\* C8: load_meta_fields on a document set with a record that has no
\* 'content' raises the missing-field error and leaves the document set as
\* it was before the call.
C8_FailedLoadChangesNothing ==
    (pc = "load_content" /\ ~AllHaveContent(args.docs)) =>
        /\ ret.status = "KeyError"
        /\ store = args.docs

Hooks == {"single_content", "pre_load_custom_functions"}

\* C9: a substitution call never changes the host store (every record's
\* meta, with its untrimmed values, and its content stay as they are), and a
\* file key absent from the store makes the call fail with a lookup failure;
\* only the bulk load changes the store.
C9_SubstitutionLeavesStore ==
    [][ /\ pc' \in Hooks =>
              /\ store' = store
              /\ args'.file \notin 1..Len(store) => ret'.status = "KeyError"
        /\ store' # store => pc' = "load_content" ]_vars

\* a substitution that used a value with surrounding whitespace and returned
\* a new string, with the store as it was passed in
C9_Witness ==
    /\ pc \in Hooks /\ ret.status = "ok"
    /\ ret.content # args.content
    /\ store = args.docs
    /\ \E i \in 1..Len(store[args.file].meta) :
           store[args.file].meta[i][2] # strip(store[args.file].meta[i][2])

----------------------------------------------------------------------------
(* Claims about replace_field and replace_fields, under SpecReplace *)

\* every non-overlapping occurrence of old in s, left to right, replaced by
\* new, character for character (str.replace); old is not empty
RECURSIVE LiteralReplaceFrom(_, _, _, _)
LiteralReplaceFrom(s, old, new, i) ==
    IF i > Len(s) THEN <<>>
    ELSE IF i + Len(old) - 1 <= Len(s) /\ SubSeq(s, i, i + Len(old) - 1) = old
         THEN new \o LiteralReplaceFrom(s, old, new, i + Len(old))
         ELSE <<s[i]>> \o LiteralReplaceFrom(s, old, new, i + 1)

LiteralReplace(s, old, new) == LiteralReplaceFrom(s, old, new, 1)

Placeholder(name) == <<"{", "{">> \o name \o <<"}", "}">>

\* C5: replace_field(content, name, value) is the content with every
\* non-overlapping occurrence of the exact substring {{name}} replaced by
\* the value taken literally, whatever characters the name and the value hold.
C5_ReplaceFieldIsLiteral ==
    pc = "replace_field" =>
        /\ ret.status = "ok"
        /\ ret.content = LiteralReplace(args.content, Placeholder(args.fieldname),
                                        args.value)

\* the names of the placeholders {{name}} of s, left to right: name is a
\* non-empty run of characters other than braces
RECURSIVE PlaceholdersFrom(_, _)
PlaceholdersFrom(s, i) ==
    IF i > Len(s) THEN <<>>
    ELSE LET n == SkipIn(s, i + 2, Alphabet \ {"{", "}"})
         IN  IF /\ i + 1 <= Len(s) /\ s[i] = "{" /\ s[i + 1] = "{"
                /\ n > i + 2 /\ n + 1 <= Len(s)
                /\ s[n] = "}" /\ s[n + 1] = "}"
             THEN <<SubSeq(s, i + 2, n - 1)>> \o PlaceholdersFrom(s, n + 2)
             ELSE PlaceholdersFrom(s, i + 1)

UnknownPlaceholders(s, meta_fields) ==
    SelectSeq(PlaceholdersFrom(s, 1), LAMBDA name : name \notin DictKeys(meta_fields))

\* a is b with some elements left out
RECURSIVE IsSubsequence(_, _)
IsSubsequence(a, b) ==
    IF a = <<>> THEN TRUE
    ELSE IF b = <<>> THEN FALSE
    ELSE IF Head(a) = Head(b) THEN IsSubsequence(Tail(a), Tail(b))
    ELSE IsSubsequence(a, Tail(b))

\* C6: replace_fields raises no error and replaces a placeholder only if its
\* name is a key of meta: the placeholders whose name is no key appear in the
\* result unchanged, in the same relative order; with an empty meta the
\* content is returned unchanged.
C6_UnknownPlaceholdersStay ==
    pc = "replace_fields" =>
        /\ ret.status = "ok"
        /\ IsSubsequence(UnknownPlaceholders(args.content, args.meta_fields),
                         UnknownPlaceholders(ret.content, args.meta_fields))
        /\ args.meta_fields = EmptyDict => ret.content = args.content

\* the orders of the entries of a dict
Orders(d) ==
    {[i \in 1..Len(d) |-> d[f[i]]] : f \in Permutations(1..Len(d))}

\* C7: the result of replace_fields does not depend on the iteration order
\* of meta: the entries applied in any other order give the same string.
C7_OrderDoesNotMatter ==
    pc = "replace_fields" =>
        \A other \in Orders(args.meta_fields) :
            replace_fields(args.content, other).result
                = [status |-> ret.status, content |-> ret.content]

TrimmedValues(d) == [i \in 1..Len(d) |-> <<d[i][1], Trimmed(d[i][2])>>]

\* C10: replace_fields substitutes the trimmed value of every entry: it
\* gives what it gives on the mapping with every value trimmed, and trimming
\* the trimmed values again changes nothing.
C10_ValuesAreTrimmed ==
    pc = "replace_fields" =>
        LET trimmed == TrimmedValues(args.meta_fields)
        IN  /\ replace_fields(args.content, trimmed).result
                   = [status |-> ret.status, content |-> ret.content]
            /\ \A i \in 1..Len(trimmed) : strip(trimmed[i][2]) = trimmed[i][2]
            /\ ret.status = "ok" =>
                   \A i \in 1..Len(args.meta_fields) :
                       LET name == args.meta_fields[i][1]
                           value == args.meta_fields[i][2]
                       IN  (Len(args.meta_fields) = 1 /\ "\\" \notin Range(value))
                               => ret.content = LiteralReplace(
                                      args.content, Placeholder(name), Trimmed(value))

\* {x: " x "} into {{x}} gives x
C10_Witness ==
    /\ pc = "replace_fields" /\ ret.status = "ok"
    /\ args.content = <<"{", "{", "x", "}", "}">>
    /\ args.meta_fields = <<(<<(<<"x">>), (<<" ", "x", " ">>)>>)>>
    /\ ret.content = <<"x">>

====
